---- MODULE Spec2Model ----
(***************************************************************************)
(* Model of discord-cdn (src/main.go): the link parser parseLink/cleanURL, *)
(* the refresh client DiscordClient.RefreshAttachmentURL and the request   *)
(* handler handleURL.                                                      *)
(*                                                                         *)
(* Go strings are modelled as sequences of one-character strings, so that  *)
(* Index, Split, Contains, ParseInt and %d formatting are computed         *)
(* character by character.  A 64-bit integer is modelled by its sign and   *)
(* its decimal digits without leading zeros, which keeps the real width    *)
(* of strconv.ParseInt(s, 10, 64).                                         *)
(***************************************************************************)
EXTENDS Integers, Sequences, FiniteSets, TLC

VARIABLES
    \* parser harness: one call of parseLink and the rebuild of the URL
    input, ppc, parsed, canonical, reparsed,
    \* server: configuration, the shared client and one handler per request
    config, client, reqPath, pc, decodedURL, parsedLink, attachmentURL,
    calls, answer, responses, steps

parseVars == <<input, ppc, parsed, canonical, reparsed>>
serverVars == <<config, client, reqPath, pc, decodedURL, parsedLink,
                attachmentURL, calls, answer, responses, steps>>
vars == <<input, ppc, parsed, canonical, reparsed,
          config, client, reqPath, pc, decodedURL, parsedLink, attachmentURL,
          calls, answer, responses, steps>>

----------------------------------------------------------------------------
(* Bounds *)

\* largest number of "/"-separated segments of a generated parser input
MaxSegs == 4

\* number of requests handled concurrently
NumReqs == 2

----------------------------------------------------------------------------
(* Text *)

Digits == {"0","1","2","3","4","5","6","7","8","9"}

DigitVal ==
    ("0" :> 0) @@ ("1" :> 1) @@ ("2" :> 2) @@ ("3" :> 3) @@ ("4" :> 4) @@
    ("5" :> 5) @@ ("6" :> 6) @@ ("7" :> 7) @@ ("8" :> 8) @@ ("9" :> 9)

\* the literal "attachments/" of cleanURL
AttachmentsSlash == <<"a","t","t","a","c","h","m","e","n","t","s","/">>

\* the literal "https://cdn.discordapp.com/attachments/" of handleURL's Sprintf
CdnPrefix ==
    <<"h","t","t","p","s",":","/","/","c","d","n",".","d","i","s","c","o","r",
      "d","a","p","p",".","c","o","m","/">> \o AttachmentsSlash

\* strings.Index: 0-based position of the first occurrence of sub, or -1
Index(s, sub) ==
    LET hits == {i \in 0..(Len(s) - Len(sub)) :
                    SubSeq(s, i + 1, i + Len(sub)) = sub}
    IN  IF hits = {} THEN -1
        ELSE CHOOSE i \in hits : \A j \in hits : i <= j

\* strings.Contains
Contains(s, sub) == Index(s, sub) # -1

\* strings.Split(s, sep) for a one-character separator: always at least one
\* segment, the empty string gives one empty segment
RECURSIVE Split(_, _)
Split(s, sep) ==
    LET i == Index(s, <<sep>>)
    IN  IF i = -1 THEN <<s>>
        ELSE <<SubSeq(s, 1, i)>> \o Split(SubSeq(s, i + 2, Len(s)), sep)

\* strings.TrimPrefix
TrimPrefix(s, prefix) ==
    IF Len(s) >= Len(prefix) /\ SubSeq(s, 1, Len(prefix)) = prefix
    THEN SubSeq(s, Len(prefix) + 1, Len(s))
    ELSE s

----------------------------------------------------------------------------
(* strconv.ParseInt(s, 10, 64) and the %d verb *)

\* 2^64 - 1, the largest value ParseUint(s, 10, 64) returns without error
MaxUint64 ==
    <<"1","8","4","4","6","7","4","4","0","7","3","7","0","9","5","5","1","6","1","5">>

\* 2^63, ParseInt's cutoff := uint64(1 << uint(bitSize-1))
Cutoff ==
    <<"9","2","2","3","3","7","2","0","3","6","8","5","4","7","7","5","8","0","8">>

RECURSIVE StripZeros(_)
StripZeros(ds) ==
    IF Len(ds) > 1 /\ ds[1] = "0" THEN StripZeros(Tail(ds)) ELSE ds

\* a < b for two digit strings without leading zeros
MagLess(a, b) ==
    \/ Len(a) < Len(b)
    \/ /\ Len(a) = Len(b)
       /\ \E i \in 1..Len(a) :
            /\ SubSeq(a, 1, i - 1) = SubSeq(b, 1, i - 1)
            /\ DigitVal[a[i]] < DigitVal[b[i]]

Zero == [neg |-> FALSE, mag |-> <<"0">>]

\* strconv.ParseUint(s, 10, 64): err is "" or the kind of *NumError
ParseUint(s) ==
    IF s = <<>> THEN [err |-> "syntax", mag |-> <<"0">>]
    ELSE IF \E i \in 1..Len(s) : s[i] \notin Digits
         THEN [err |-> "syntax", mag |-> <<"0">>]
    ELSE IF MagLess(MaxUint64, StripZeros(s))
         THEN [err |-> "range", mag |-> MaxUint64]
    ELSE [err |-> "", mag |-> StripZeros(s)]

\* strconv.ParseInt(s, 10, 64): optional sign, then ParseUint, then the range
\* -2^63 .. 2^63-1; val is meaningful only when err = ""
ParseInt(s) ==
    IF s = <<>> THEN [err |-> "syntax", val |-> Zero]
    ELSE
      LET neg == s[1] = "-"
          rest == IF s[1] \in {"+", "-"} THEN Tail(s) ELSE s
          un == ParseUint(rest)
      IN  IF un.err # "" THEN [err |-> un.err, val |-> Zero]
          ELSE IF ~neg /\ ~MagLess(un.mag, Cutoff)
               THEN [err |-> "range", val |-> Zero]
          ELSE IF neg /\ MagLess(Cutoff, un.mag)
               THEN [err |-> "range", val |-> Zero]
          ELSE [err |-> "",
                val |-> [neg |-> neg /\ un.mag # <<"0">>, mag |-> un.mag]]

\* a plausible slip: the value is formatted without its sign
FormatIntAbs(v) == v.mag

\* fmt's %d of an int64
FormatInt(v) == IF v.neg THEN <<"-">> \o v.mag ELSE v.mag

----------------------------------------------------------------------------
(* parseLink and cleanURL *)

NoData == [nil |-> TRUE]

cleanURL(url) ==
    LET q == Index(url, <<"?">>)
        u1 == IF q # -1 THEN SubSeq(url, 1, q) ELSE url
        a == Index(u1, AttachmentsSlash)
    IN  IF a # -1 THEN SubSeq(u1, a + Len(AttachmentsSlash) + 1, Len(u1))
        ELSE u1

\* a plausible slip: the file name is checked before the two IDs
parseLinkNameFirst(in) ==
    LET parts == Split(cleanURL(in), "/")
    IN  IF Len(parts) # 3
        THEN [Error |-> "Invalid link format", Data |-> NoData]
        ELSE IF ~Contains(parts[3], <<".">>)
        THEN [Error |-> "File name must include extension", Data |-> NoData]
        ELSE IF ParseInt(parts[1]).err # ""
        THEN [Error |-> "Invalid Channel ID", Data |-> NoData]
        ELSE IF ParseInt(parts[2]).err # ""
        THEN [Error |-> "Invalid File ID", Data |-> NoData]
        ELSE [Error |-> "",
              Data |-> [ChannelID |-> ParseInt(parts[1]).val,
                        FileID |-> ParseInt(parts[2]).val,
                        FileName |-> parts[3]]]

parseLink(in) ==
    LET parts == Split(cleanURL(in), "/")
    IN  IF Len(parts) # 3
        THEN [Error |-> "Invalid link format", Data |-> NoData]
        ELSE IF ParseInt(parts[1]).err # ""
        THEN [Error |-> "Invalid Channel ID", Data |-> NoData]
        ELSE IF ParseInt(parts[2]).err # ""
        THEN [Error |-> "Invalid File ID", Data |-> NoData]
        ELSE IF ~Contains(parts[3], <<".">>)
        THEN [Error |-> "File name must include extension", Data |-> NoData]
        ELSE [Error |-> "",
              Data |-> [ChannelID |-> ParseInt(parts[1]).val,
                        FileID |-> ParseInt(parts[2]).val,
                        FileName |-> parts[3]]]

\* handleURL's Sprintf("https://cdn.discordapp.com/attachments/%d/%d/%s", ...)
CanonicalURL(d) ==
    CdnPrefix \o FormatInt(d.ChannelID) \o <<"/">> \o FormatInt(d.FileID)
              \o <<"/">> \o d.FileName

----------------------------------------------------------------------------
(* Parser harness: inputs of parseLink, one call, and the URL rebuilt from  *)
(* a successful result and parsed again                                     *)

\* texts tried as channel ID and file ID: plain, leading zeros, signed, empty,
\* not a number, 2^63-1, 2^63, -2^63 and 2^64
IdPool ==
    {<<"1","2","3">>,
     <<"4","5","6">>,
     <<"0","0","7">>,
     <<"+","5">>,
     <<"-","5">>,
     <<>>,
     <<"a","b","c">>,
     <<"9","2","2","3","3","7","2","0","3","6","8","5","4","7","7","5","8","0","7">>,
     <<"9","2","2","3","3","7","2","0","3","6","8","5","4","7","7","5","8","0","8">>,
     <<"-","9","2","2","3","3","7","2","0","3","6","8","5","4","7","7","5","8","0","8">>,
     <<"1","8","4","4","6","7","4","4","0","7","3","7","0","9","5","5","1","6","1","6">>}

\* texts tried as file name
NamePool ==
    {<<"i","m","a","g","e",".","p","n","g">>,
     <<"n","o","e","x","t","e","n","s","i","o","n">>,
     <<"a",".","a","t","t","a","c","h","m","e","n","t","s">>,
     <<".">>}

\* what may precede the path: nothing, the CDN prefix, another "attachments/"
PrefixPool == {<<>>, CdnPrefix, <<"m","/">> \o AttachmentsSlash}

\* what may follow the path: nothing or a query string
QueryPool == {<<>>, <<"?","e","x","=","a","/","b">>}

SegPool(i) == IF i <= 2 THEN IdPool ELSE NamePool

RECURSIVE Join(_, _)
Join(segs, sep) ==
    IF segs = <<>> THEN <<>>
    ELSE IF Len(segs) = 1 THEN segs[1]
    ELSE segs[1] \o <<sep>> \o Join(Tail(segs), sep)

\* all segment lists of length n, the i-th segment drawn from SegPool(i)
RECURSIVE SegLists(_)
SegLists(n) ==
    IF n = 0 THEN {<<>>}
    ELSE {Append(l, s) : l \in SegLists(n - 1), s \in SegPool(n)}

Inputs ==
    {p \o Join(l, "/") \o q :
        p \in PrefixPool, q \in QueryPool,
        l \in UNION {SegLists(n) : n \in 0..MaxSegs}}

ServerIdle ==
    /\ config = [Token |-> "", Port |-> 0]
    /\ client = [token |-> ""]
    /\ reqPath = <<>>
    /\ pc = <<>>
    /\ decodedURL = <<>>
    /\ parsedLink = <<>>
    /\ attachmentURL = <<>>
    /\ calls = <<>>
    /\ answer = <<>>
    /\ responses = <<>>
    /\ steps = <<>>

InitParse ==
    /\ input \in Inputs
    /\ ppc = "ready"
    /\ parsed = [Error |-> "", Data |-> NoData]
    /\ canonical = <<>>
    /\ reparsed = [Error |-> "", Data |-> NoData]
    /\ ServerIdle

\* parsedLink := parseLink(decodedURL)
ParseStep ==
    /\ ppc = "ready"
    /\ parsed' = parseLink(input)
    /\ ppc' = "parsed"
    /\ UNCHANGED <<input, canonical, reparsed>>
    /\ UNCHANGED serverVars

\* attachmentURL := Sprintf(...) of a successful result, parsed again
RebuildStep ==
    /\ ppc = "parsed"
    /\ parsed.Error = ""
    /\ canonical' = CanonicalURL(parsed.Data)
    /\ reparsed' = parseLink(canonical')
    /\ ppc' = "rebuilt"
    /\ UNCHANGED <<input, parsed>>
    /\ UNCHANGED serverVars

NextParse == ParseStep \/ RebuildStep

SpecParse == InitParse /\ [][NextParse]_vars

----------------------------------------------------------------------------
(* url.PathUnescape *)

HexDigits ==
    Digits \cup {"a","b","c","d","e","f","A","B","C","D","E","F"}

\* unhex(s[i+1])<<4 | unhex(s[i+2]) for the escapes the request paths use
ByteTable ==
    (<<"2","F">> :> "/") @@ (<<"3","F">> :> "?") @@ (<<"2","E">> :> ".")

\* url.PathUnescape: a "%" not followed by two hex digits is an EscapeError,
\* "%XX" becomes one byte, every other character (a "+" too) is kept.  The
\* two digits of an escape are never "%", so every "%" starts an escape.
IsByte(c) == c # ""

PathUnescape(s) ==
    LET n == Len(s)
        bad == \E i \in 1..n :
                  /\ s[i] = "%"
                  /\ \/ i + 2 > n
                     \/ s[i + 1] \notin HexDigits
                     \/ s[i + 2] \notin HexDigits
        inEscape(i) == \/ i > 1 /\ s[i - 1] = "%"
                       \/ i > 2 /\ s[i - 2] = "%"
        bytes == [i \in 1..n |->
                    IF inEscape(i) THEN ""
                    ELSE IF s[i] = "%" THEN ByteTable[<<s[i + 1], s[i + 2]>>]
                    ELSE s[i]]
    IN  IF bad THEN [err |-> TRUE, out |-> <<>>]
        ELSE [err |-> FALSE, out |-> SelectSeq(bytes, IsByte)]

----------------------------------------------------------------------------
(* The refresh client *)

\* the value of TOKEN; loadConfig refuses the empty one
TokenPool == {"token"}

NewDiscordClient(token) == [token |-> token]

\* the POST that RefreshAttachmentURL sends
RefreshRequest(c, url) ==
    [method |-> "POST",
     url |-> "https://discord.com/api/v9/attachments/refresh-urls",
     contentType |-> "application/json",
     authorization |-> c.token,
     body |-> [attachment_urls |-> <<url>>]]

\* entries of refreshed_urls
E1 == [original |-> "X", refreshed |-> "Y"]
E2 == [original |-> "Y", refreshed |-> "X"]

\* what the upstream may answer to one call: no answer at all (transport
\* failure), or a status with a body that is not JSON or carries a list
TransportFailure ==
    [transport |-> "fail", status |-> 0, decodes |-> FALSE, urls |-> <<>>]

Reply(status, decodes, urls) ==
    [transport |-> "ok", status |-> status, decodes |-> decodes, urls |-> urls]

Answers ==
    {TransportFailure,
     Reply(200, FALSE, <<>>),
     Reply(200, TRUE, <<>>),
     Reply(200, TRUE, <<E1>>),
     Reply(200, TRUE, <<E1, E2>>),
     Reply(204, TRUE, <<E1>>),
     Reply(500, FALSE, <<>>),
     Reply(500, TRUE, <<E1>>)}

\* a plausible slip: only 4xx and 5xx statuses are treated as failures
RefreshResultErrorStatusOnly(ans) ==
    IF ans.transport # "ok"
    THEN [err |-> "failed to execute request", url |-> ""]
    ELSE IF ans.status >= 400
    THEN [err |-> "discord API error", url |-> ""]
    ELSE IF ~ans.decodes
    THEN [err |-> "failed to decode response", url |-> ""]
    ELSE IF Len(ans.urls) = 0
    THEN [err |-> "no refreshed URLs returned", url |-> ""]
    ELSE [err |-> "", url |-> ans.urls[1].refreshed]

\* a plausible slip: the last entry of the list instead of the first
RefreshResultLastEntry(ans) ==
    IF ans.transport # "ok"
    THEN [err |-> "failed to execute request", url |-> ""]
    ELSE IF ans.status # 200
    THEN [err |-> "discord API error", url |-> ""]
    ELSE IF ~ans.decodes
    THEN [err |-> "failed to decode response", url |-> ""]
    ELSE IF Len(ans.urls) = 0
    THEN [err |-> "no refreshed URLs returned", url |-> ""]
    ELSE [err |-> "", url |-> ans.urls[Len(ans.urls)].refreshed]

\* RefreshAttachmentURL from client.Do's return on
RefreshResult(ans) ==
    IF ans.transport # "ok"
    THEN [err |-> "failed to execute request", url |-> ""]
    ELSE IF ans.status # 200
    THEN [err |-> "discord API error", url |-> ""]
    ELSE IF ~ans.decodes
    THEN [err |-> "failed to decode response", url |-> ""]
    ELSE IF Len(ans.urls) = 0
    THEN [err |-> "no refreshed URLs returned", url |-> ""]
    ELSE [err |-> "", url |-> ans.urls[1].refreshed]

----------------------------------------------------------------------------
(* The request handler *)

Reqs == 1..NumReqs

\* values of c.Param("encodedURL"): the root, a broken escape, the four parse
\* errors, a bare path and an escaped path with prefix and query string
PathPool ==
    {
     <<"/">>,
     <<"/","1","/","2","/","a",".","b","%","4">>,
     <<"/","1","2","3","/","4","5","6">>,
     <<"/","a","b","c","/","4","5","6","/","i","m","a","g","e",".","p","n","g">>,
     <<"/","1","2","3","/","x","/","i","m","a","g","e",".","p","n","g">>,
     <<"/","1","2","3","/","4","5","6","/","n","o","e","x","t","e","n","s","i","o","n">>,
     <<"/","1","2","3","/","4","5","6","/","i","m","a","g","e",".","p","n","g">>,
     <<"/","a","t","t","a","c","h","m","e","n","t","s","%","2","F","0","0","7","%","2","F","-","5","%","2","F","a",".","b","%","3","F","e","x">>}

NoAnswer == [none |-> TRUE]

\* c.JSON(code, gin.H{"error": msg})
JSON(code, msg) ==
    [status |-> code, location |-> <<>>, body |-> <<[error |-> msg]>>]

\* c.Redirect(code, url)
Redirect(code, url) ==
    [status |-> code, location |-> <<url>>, body |-> <<>>]

ParseIdle ==
    /\ input = <<>>
    /\ ppc = "idle"
    /\ parsed = [Error |-> "", Data |-> NoData]
    /\ canonical = <<>>
    /\ reparsed = [Error |-> "", Data |-> NoData]

\* main: loadConfig, NewDiscordClient(config.Token), one handler per request
Init ==
    /\ config \in [Token : TokenPool, Port : {8080}]
    /\ client = NewDiscordClient(config.Token)
    /\ reqPath \in [Reqs -> PathPool]
    /\ pc = [r \in Reqs |-> "start"]
    /\ decodedURL = [r \in Reqs |-> <<>>]
    /\ parsedLink = [r \in Reqs |-> [Error |-> "", Data |-> NoData]]
    /\ attachmentURL = [r \in Reqs |-> <<>>]
    /\ calls = [r \in Reqs |-> <<>>]
    /\ answer = [r \in Reqs |-> NoAnswer]
    /\ responses = [r \in Reqs |-> <<>>]
    /\ steps = [r \in Reqs |-> <<>>]
    /\ ParseIdle

\* a plausible slip: the decoder's own message is sent to the caller
HandleDecodeRawError(r) ==
    /\ pc[r] = "start"
    /\ LET encodedURL == TrimPrefix(reqPath[r], <<"/">>)
           u == PathUnescape(encodedURL)
       IN  IF encodedURL = <<>>
           THEN /\ responses' = [responses EXCEPT
                      ![r] = Append(@, JSON(400, "URL is required"))]
                /\ steps' = [steps EXCEPT ![r] = Append(@, "respond")]
                /\ pc' = [pc EXCEPT ![r] = "done"]
                /\ UNCHANGED decodedURL
           ELSE IF u.err
           THEN /\ responses' = [responses EXCEPT
                      ![r] = Append(@, JSON(400, "invalid URL escape"))]
                /\ steps' = [steps EXCEPT ![r] = @ \o <<"decode", "respond">>]
                /\ pc' = [pc EXCEPT ![r] = "done"]
                /\ UNCHANGED decodedURL
           ELSE /\ decodedURL' = [decodedURL EXCEPT ![r] = u.out]
                /\ steps' = [steps EXCEPT ![r] = Append(@, "decode")]
                /\ pc' = [pc EXCEPT ![r] = "decoded"]
                /\ UNCHANGED responses
    /\ UNCHANGED <<config, client, reqPath, parsedLink, attachmentURL,
                   calls, answer>>
    /\ UNCHANGED parseVars

\* handleURL up to the decoded URL: the empty path and a failed decode are
\* answered 400
HandleDecode(r) ==
    /\ pc[r] = "start"
    /\ LET encodedURL == TrimPrefix(reqPath[r], <<"/">>)
           u == PathUnescape(encodedURL)
       IN  IF encodedURL = <<>>
           THEN /\ responses' = [responses EXCEPT
                      ![r] = Append(@, JSON(400, "URL is required"))]
                /\ steps' = [steps EXCEPT ![r] = Append(@, "respond")]
                /\ pc' = [pc EXCEPT ![r] = "done"]
                /\ UNCHANGED decodedURL
           ELSE IF u.err
           THEN /\ responses' = [responses EXCEPT
                      ![r] = Append(@, JSON(400, "Invalid URL format"))]
                /\ steps' = [steps EXCEPT ![r] = @ \o <<"decode", "respond">>]
                /\ pc' = [pc EXCEPT ![r] = "done"]
                /\ UNCHANGED decodedURL
           ELSE /\ decodedURL' = [decodedURL EXCEPT ![r] = u.out]
                /\ steps' = [steps EXCEPT ![r] = Append(@, "decode")]
                /\ pc' = [pc EXCEPT ![r] = "decoded"]
                /\ UNCHANGED responses
    /\ UNCHANGED <<config, client, reqPath, parsedLink, attachmentURL,
                   calls, answer>>
    /\ UNCHANGED parseVars

\* parsedLink := parseLink(decodedURL); an error is answered 400
HandleParse(r) ==
    /\ pc[r] = "decoded"
    /\ LET p == parseLink(decodedURL[r])
       IN  /\ parsedLink' = [parsedLink EXCEPT ![r] = p]
           /\ IF p.Error # ""
              THEN /\ responses' = [responses EXCEPT
                         ![r] = Append(@, JSON(400, p.Error))]
                   /\ steps' = [steps EXCEPT ![r] = @ \o <<"parse", "respond">>]
                   /\ pc' = [pc EXCEPT ![r] = "done"]
              ELSE /\ steps' = [steps EXCEPT ![r] = Append(@, "parse")]
                   /\ pc' = [pc EXCEPT ![r] = "parsed"]
                   /\ UNCHANGED responses
    /\ UNCHANGED <<config, client, reqPath, decodedURL, attachmentURL,
                   calls, answer>>
    /\ UNCHANGED parseVars

\* a plausible slip: the parse result is kept in a variable that all
\* invocations share, so the URL may be built from another request's link
HandleCallShared(r) ==
    /\ pc[r] = "parsed"
    /\ \E q \in Reqs :
         /\ pc[q] \in {"parsed", "waiting", "done"}
         /\ parsedLink[q].Error = ""
         /\ parsedLink[q].Data # NoData
         /\ LET u == CanonicalURL(parsedLink[q].Data)
            IN  /\ attachmentURL' = [attachmentURL EXCEPT ![r] = u]
                /\ calls' = [calls EXCEPT
                       ![r] = Append(@, RefreshRequest(client, u))]
    /\ steps' = [steps EXCEPT ![r] = Append(@, "refresh")]
    /\ pc' = [pc EXCEPT ![r] = "waiting"]
    /\ UNCHANGED <<config, client, reqPath, decodedURL, parsedLink,
                   answer, responses>>
    /\ UNCHANGED parseVars

\* attachmentURL := Sprintf(...); RefreshAttachmentURL sends its POST and
\* waits in client.Do
HandleCall(r) ==
    /\ pc[r] = "parsed"
    /\ LET u == CanonicalURL(parsedLink[r].Data)
       IN  /\ attachmentURL' = [attachmentURL EXCEPT ![r] = u]
           /\ calls' = [calls EXCEPT
                  ![r] = Append(@, RefreshRequest(client, u))]
    /\ steps' = [steps EXCEPT ![r] = Append(@, "refresh")]
    /\ pc' = [pc EXCEPT ![r] = "waiting"]
    /\ UNCHANGED <<config, client, reqPath, decodedURL, parsedLink,
                   answer, responses>>
    /\ UNCHANGED parseVars

\* a plausible slip: no return after the 502, the redirect is written too
HandleReturnNoReturn(r) ==
    /\ pc[r] = "waiting"
    /\ \E ans \in Answers :
         LET res == RefreshResult(ans)
         IN  /\ answer' = [answer EXCEPT ![r] = ans]
             /\ responses' = [responses EXCEPT ![r] =
                    IF res.err # ""
                    THEN @ \o <<JSON(502, "Failed to refresh URL"),
                                Redirect(301, res.url)>>
                    ELSE Append(@, Redirect(301, res.url))]
    /\ steps' = [steps EXCEPT ![r] = Append(@, "respond")]
    /\ pc' = [pc EXCEPT ![r] = "done"]
    /\ UNCHANGED <<config, client, reqPath, decodedURL, parsedLink,
                   attachmentURL, calls>>
    /\ UNCHANGED parseVars

\* a plausible slip: a failed refresh is tried again
HandleReturnRetry(r) ==
    /\ pc[r] = "waiting"
    /\ \E ans \in Answers :
         LET res == RefreshResult(ans)
         IN  /\ answer' = [answer EXCEPT ![r] = ans]
             /\ IF res.err # ""
                THEN /\ pc' = [pc EXCEPT ![r] = "parsed"]
                     /\ UNCHANGED <<responses, steps>>
                ELSE /\ responses' = [responses EXCEPT
                           ![r] = Append(@, Redirect(301, res.url))]
                     /\ steps' = [steps EXCEPT ![r] = Append(@, "respond")]
                     /\ pc' = [pc EXCEPT ![r] = "done"]
    /\ UNCHANGED <<config, client, reqPath, decodedURL, parsedLink,
                   attachmentURL, calls>>
    /\ UNCHANGED parseVars

\* client.Do returns with the upstream's answer; RefreshAttachmentURL turns
\* it into a URL or an error, and handleURL answers 301 or 502
HandleReturn(r) ==
    /\ pc[r] = "waiting"
    /\ \E ans \in Answers :
         LET res == RefreshResult(ans)
         IN  /\ answer' = [answer EXCEPT ![r] = ans]
             /\ responses' = [responses EXCEPT ![r] =
                    IF res.err # ""
                    THEN Append(@, JSON(502, "Failed to refresh URL"))
                    ELSE Append(@, Redirect(301, res.url))]
    /\ steps' = [steps EXCEPT ![r] = Append(@, "respond")]
    /\ pc' = [pc EXCEPT ![r] = "done"]
    /\ UNCHANGED <<config, client, reqPath, decodedURL, parsedLink,
                   attachmentURL, calls>>
    /\ UNCHANGED parseVars

Next ==
    \E r \in Reqs :
        \/ HandleDecode(r)
        \/ HandleParse(r)
        \/ HandleCall(r)
        \/ HandleReturn(r)

Spec == Init /\ [][Next]_vars

----------------------------------------------------------------------------
(* Properties of the parser *)

\* the input without its query string, and without the CDN prefix if it has it
CoreOf(in) ==
    LET q == Index(in, <<"?">>)
        noq == IF q # -1 THEN SubSeq(in, 1, q) ELSE in
    IN  TrimPrefix(noq, CdnPrefix)

AllDigits(s) == s # <<>> /\ \A i \in 1..Len(s) : s[i] \in Digits

\* the core is C/F/N with C and F digit strings and N a name with a "."
WellFormed(in) ==
    LET segs == Split(CoreOf(in), "/")
    IN  /\ Len(segs) = 3
        /\ AllDigits(segs[1])
        /\ AllDigits(segs[2])
        /\ \E i \in 1..Len(segs[3]) : segs[3][i] = "."

NumberOf(ds) == [neg |-> FALSE, mag |-> StripZeros(ds)]

\* a decimal numeral of 0 .. 2^64-1 without a sign character
IsUint64(s) == AllDigits(s) /\ ~MagLess(MaxUint64, StripZeros(s))

\* a decimal numeral of -2^63 .. 2^63-1 with an optional sign character
IsInt64(s) ==
    /\ s # <<>>
    /\ LET body == IF s[1] \in {"+", "-"} THEN Tail(s) ELSE s
       IN  /\ AllDigits(body)
           /\ IF s[1] = "-" THEN ~MagLess(Cutoff, StripZeros(body))
              ELSE MagLess(StripZeros(body), Cutoff)

SlashCount(s) == Cardinality({i \in 1..Len(s) : s[i] = "/"})

\* C1: every input whose core is a well-formed path C/F/N (C, F digit
\* strings, N with a ".") parses without error to ChannelID = C, FileID = F,
\* FileName = N, whether bare, prefixed with the CDN prefix or followed by a
\* query string.
C1_WellFormedParses ==
    (ppc # "ready" /\ WellFormed(input)) =>
        LET segs == Split(CoreOf(input), "/")
        IN  parsed = [Error |-> "",
                      Data |-> [ChannelID |-> NumberOf(segs[1]),
                                FileID |-> NumberOf(segs[2]),
                                FileName |-> segs[3]]]

\* C2: with exactly 3 segments, segment 1 is accepted exactly when it is an
\* unsigned 64-bit decimal numeral without sign, else "Invalid Channel ID";
\* segment 2 is then accepted under the same rule, else "Invalid File ID".
C2_UnsignedIds ==
    (ppc # "ready" /\ SlashCount(cleanURL(input)) = 2) =>
        LET segs == Split(cleanURL(input), "/")
        IN  /\ (parsed.Error = "Invalid Channel ID") <=> ~IsUint64(segs[1])
            /\ IsUint64(segs[1]) =>
                 ((parsed.Error = "Invalid File ID") <=> ~IsUint64(segs[2]))

\* C3: parseLink returns either data and no error or an error and no data,
\* and the error is that of the first failing check in the order segment
\* count, channel ID, file ID, file name.
C3_FirstFailingCheck ==
    (ppc # "ready") =>
        LET s == cleanURL(input)
            segs == Split(s, "/")
        IN  /\ (parsed.Error = "") <=> (parsed.Data # NoData)
            /\ parsed.Error =
                 IF SlashCount(s) # 2 THEN "Invalid link format"
                 ELSE IF ~IsInt64(segs[1]) THEN "Invalid Channel ID"
                 ELSE IF ~IsInt64(segs[2]) THEN "Invalid File ID"
                 ELSE IF \A i \in 1..Len(segs[3]) : segs[3][i] # "."
                      THEN "File name must include extension"
                 ELSE ""
            /\ (input = <<>>) => parsed.Error = "Invalid link format"

\* C3 witness: an input with three faults at once reports the channel ID only
C3_Witness ==
    /\ ppc = "parsed"
    /\ SlashCount(cleanURL(input)) = 2
    /\ LET segs == Split(cleanURL(input), "/")
       IN  /\ ~IsInt64(segs[1])
           /\ ~IsInt64(segs[2])
           /\ \A i \in 1..Len(segs[3]) : segs[3][i] # "."
    /\ parsed.Error = "Invalid Channel ID"

\* C10: the canonical URL built from a successful result is accepted by
\* parseLink and yields the same data, and rebuilding it gives the same URL.
C10_RoundTrip ==
    (ppc = "rebuilt") =>
        /\ reparsed.Error = ""
        /\ reparsed = parsed
        /\ CanonicalURL(reparsed.Data) = canonical

\* C10 witness: a signed ID with the text "attachments" in the file name has
\* been rebuilt into a URL that differs from the input
C10_Witness ==
    /\ ppc = "rebuilt"
    /\ input[1] \in {"+", "-"}
    /\ parsed.Data.ChannelID.neg
    /\ Contains(parsed.Data.FileName, <<"a","t","t","a","c","h">>)
    /\ canonical # input

----------------------------------------------------------------------------
(* Properties of the handler *)

\* the decoded path of request r, when it decodes
DecodedOf(r) == PathUnescape(TrimPrefix(reqPath[r], <<"/">>)).out

\* request r's path is not empty, decodes and parses to a valid link
ValidLink(r) ==
    /\ TrimPrefix(reqPath[r], <<"/">>) # <<>>
    /\ ~PathUnescape(TrimPrefix(reqPath[r], <<"/">>)).err
    /\ parseLink(DecodedOf(r)).Error = ""

\* the upstream's answer to r's call is one of the failures
UpstreamFailed(r) ==
    \/ answer[r].transport # "ok"
    \/ answer[r].status # 200
    \/ ~answer[r].decodes
    \/ answer[r].urls = <<>>

\* C4: for a valid link, a 200 answer with a non-empty refreshed_urls list is
\* answered 301 with Location = the refreshed field of the first entry.
C4_RedirectToFirstEntry ==
    \A r \in Reqs :
        (answer[r] # NoAnswer /\ ~UpstreamFailed(r)) =>
            \/ responses[r] = <<[status |-> 301,
                                 location |-> <<Head(answer[r].urls).refreshed>>,
                                 body |-> <<>>]>>
            \/ ~ValidLink(r)

\* C4 witness: a two-entry list whose entries differ has been answered
C4_Witness ==
    \E r \in Reqs :
        /\ answer[r] # NoAnswer
        /\ ~UpstreamFailed(r)
        /\ Len(answer[r].urls) = 2
        /\ answer[r].urls[1].refreshed # answer[r].urls[2].refreshed
        /\ Len(responses[r]) = 1
        /\ responses[r][1].status = 301

\* C5: for a valid link, every upstream failure (transport, non-200 status
\* whatever the body, undecodable body, empty list) is answered 502 with the
\* generic body and without a redirect.
C5_UpstreamFailureIs502 ==
    \A r \in Reqs :
        (answer[r] # NoAnswer /\ UpstreamFailed(r)) =>
            \/ responses[r] =
                  <<[status |-> 502,
                     location |-> <<>>,
                     body |-> <<[error |-> "Failed to refresh URL"]>>]>>
            \/ ~ValidLink(r)

\* C5 witness: a non-200 success status with a usable list has been answered
C5_Witness ==
    \E r \in Reqs :
        /\ answer[r] # NoAnswer
        /\ answer[r].transport = "ok"
        /\ answer[r].status = 204
        /\ answer[r].decodes
        /\ answer[r].urls # <<>>
        /\ Len(responses[r]) = 1
        /\ responses[r][1].status = 502

\* the messages the specification lists for a 400
ListedMessages ==
    {"Invalid URL format", "Invalid link format", "Invalid Channel ID",
     "Invalid File ID", "File name must include extension",
     "File name must include a file extension"}

\* C6 as stated: every 400 carries {"error": m} with m one of the listed
\* messages.
C6_Original ==
    \A r \in Reqs : \A i \in 1..Len(responses[r]) :
        responses[r][i].status = 400 =>
            \E m \in ListedMessages :
                responses[r][i] = [status |-> 400, location |-> <<>>,
                                   body |-> <<[error |-> m]>>]

\* C6 amended: every 400 carries {"error": m} with m one of the listed
\* messages or "URL is required", the message for the empty path.
C6_BadRequestMessages ==
    \A r \in Reqs : \A i \in 1..Len(responses[r]) :
        responses[r][i].status = 400 =>
            \E m \in ListedMessages \cup {"URL is required"} :
                responses[r][i] = [status |-> 400, location |-> <<>>,
                                   body |-> <<[error |-> m]>>]

\* C6 witness: the empty path has been answered 400 with its own message
C6_Witness ==
    \E r \in Reqs :
        /\ reqPath[r] = <<"/">>
        /\ pc[r] = "done"
        /\ responses[r] = <<JSON(400, "URL is required")>>

\* a response is a redirect without a body or an error with a JSON body
WellShaped(resp) ==
    \/ /\ resp.status = 301
       /\ Len(resp.location) = 1
       /\ resp.body = <<>>
    \/ /\ resp.status \in {400, 502}
       /\ resp.location = <<>>
       /\ Len(resp.body) = 1

\* C7: a request gets at most one response, exactly one once its handler is
\* done or the upstream call has returned, and the response is a 301 with a
\* Location and no body, or a 400 or 502 with an error body and no Location.
C7_ExactlyOneResponse ==
    \A r \in Reqs :
        /\ Len(responses[r]) <= 1
        /\ (pc[r] = "done" \/ answer[r] # NoAnswer) => Len(responses[r]) = 1
        /\ pc[r] # "done" => responses[r] = <<>>
        /\ \A i \in 1..Len(responses[r]) : WellShaped(responses[r][i])

\* C7 witness: the upstream has failed and the request has its one response
C7_Witness ==
    \E r \in Reqs :
        /\ pc[r] = "done"
        /\ answer[r] # NoAnswer
        /\ UpstreamFailed(r)
        /\ Len(responses[r]) = 1

IsPrefix(s, t) == Len(s) <= Len(t) /\ SubSeq(t, 1, Len(s)) = s

IsWork(step) == step # "respond"

\* C8: the steps of a request are a prefix of decode, parse, refresh followed
\* by at most one respond; a failed decode is answered before any parse; a
\* 400 comes with no outbound call; there is at most one outbound call, and
\* it carries the canonical URL of the request's successful parse.
C8_StepOrder ==
    \A r \in Reqs :
        /\ IsPrefix(SelectSeq(steps[r], IsWork), <<"decode", "parse", "refresh">>)
        /\ \A i \in 1..Len(steps[r]) :
              steps[r][i] = "respond" => i = Len(steps[r])
        /\ PathUnescape(TrimPrefix(reqPath[r], <<"/">>)).err =>
              \A i \in 1..Len(steps[r]) : steps[r][i] # "parse"
        /\ (\E i \in 1..Len(responses[r]) : responses[r][i].status = 400) =>
              calls[r] = <<>>
        /\ Len(calls[r]) <= 1
        /\ Len(calls[r]) = Cardinality({i \in 1..Len(steps[r]) :
                                           steps[r][i] = "refresh"})
        /\ calls[r] # <<>> =>
              /\ ValidLink(r)
              /\ calls[r][1].body.attachment_urls =
                    <<CanonicalURL(parseLink(DecodedOf(r)).Data)>>

\* C8 witness: after a failed refresh the request is done with one call made
C8_Witness ==
    \E r \in Reqs :
        /\ pc[r] = "done"
        /\ steps[r] = <<"decode", "parse", "refresh", "respond">>
        /\ UpstreamFailed(r)
        /\ Len(calls[r]) = 1
        /\ responses[r][1].status = 502

\* what handleURL answers to a path when the upstream's answer is ans
ExpectedResponse(path, ans) ==
    LET encodedURL == TrimPrefix(path, <<"/">>)
        u == PathUnescape(encodedURL)
        p == parseLink(u.out)
    IN  IF encodedURL = <<>> THEN JSON(400, "URL is required")
        ELSE IF u.err THEN JSON(400, "Invalid URL format")
        ELSE IF p.Error # "" THEN JSON(400, p.Error)
        ELSE IF \/ ans.transport # "ok"
                \/ ans.status # 200
                \/ ~ans.decodes
                \/ ans.urls = <<>>
             THEN JSON(502, "Failed to refresh URL")
        ELSE Redirect(301, ans.urls[1].refreshed)

\* C9: under every interleaving, the response of a request and the URL and
\* credential it sends upstream are those of its own path and of the answer
\* to its own call, and the client's token is the configured one.
C9_RequestsIsolated ==
    /\ client.token = config.Token
    /\ \A r \in Reqs :
        /\ \A i \in 1..Len(calls[r]) :
              /\ ValidLink(r)
              /\ calls[r][i].authorization = config.Token
              /\ calls[r][i].body.attachment_urls =
                    <<CanonicalURL(parseLink(DecodedOf(r)).Data)>>
        /\ pc[r] = "done" =>
              responses[r] = <<ExpectedResponse(reqPath[r], answer[r])>>

\* C9 witness: two requests with different links and different answers are
\* both done, the second to call being the first to be answered
C9_Witness ==
    \E r \in Reqs : \E q \in Reqs :
        /\ r # q
        /\ pc[r] = "done" /\ pc[q] = "done"
        /\ answer[r] # NoAnswer /\ answer[q] # NoAnswer
        /\ answer[r] # answer[q]
        /\ calls[r] # calls[q]
        /\ responses[r][1].status = 301
        /\ responses[q][1].status = 502

====
